---------------------------- MODULE Spec2Model ----------------------------
(***************************************************************************)
(* Order-ingestion pipeline: the field parsers and the row validator of    *)
(* cleanse.py, text normalisation and row serialisation of io_utils.py,    *)
(* and the batch orchestrator process_dataframe of main.py.                *)
(*                                                                         *)
(* Conventions.  A Python str is a sequence of one-character strings       *)
(* (<<"+","3","3">> is "+33"); characters outside ASCII carry a name       *)
(* ("<euro>").  An Optional value is None == <<>> or Some(x) == <<x>>.     *)
(* A float is an exact decimal [num, scale] = num / 10^scale.              *)
(***************************************************************************)
EXTENDS Integers, Sequences, FiniteSets, TLC

VARIABLES pc, args, ret,
          df, df_nodup, dropped_exact_dupes_count, conflict_keys,
          conflicting_dupes_count, idx, clean_rows, bad_rows, ingested_at

vars == <<pc, args, ret, df, df_nodup, dropped_exact_dupes_count, conflict_keys,
          conflicting_dupes_count, idx, clean_rows, bad_rows, ingested_at>>

batchVars == <<df, df_nodup, dropped_exact_dupes_count, conflict_keys,
               conflicting_dupes_count, idx, clean_rows, bad_rows, ingested_at>>

-----------------------------------------------------------------------------
(* Optional values and Python strings *)

None == <<>>
Some(x) == <<x>>
IsNone(o) == o = <<>>
Val(o) == o[1]

\* Python truthiness of an Optional[str]: None and "" are falsy.
Truthy(o) == o # None /\ Val(o) # <<>>

Digits == <<"0", "1", "2", "3", "4", "5", "6", "7", "8", "9">>
UpperCase == <<"A", "B", "C", "D", "E", "F", "G", "H", "I", "J", "K", "L", "M",
               "N", "O", "P", "Q", "R", "S", "T", "U", "V", "W", "X", "Y", "Z">>
LowerCase == <<"a", "b", "c", "d", "e", "f", "g", "h", "i", "j", "k", "l", "m",
               "n", "o", "p", "q", "r", "s", "t", "u", "v", "w", "x", "y", "z">>

Range(s) == {s[i] : i \in DOMAIN s}

IsDigit(c) == c \in Range(Digits)
IsUpperChar(c) == c \in Range(UpperCase)
IsLowerChar(c) == c \in Range(LowerCase)
IsLetter(c) == IsUpperChar(c) \/ IsLowerChar(c)
\* \w of the re module
IsWordChar(c) == IsDigit(c) \/ IsLetter(c) \/ c = "_"
\* \s of the re module and str.split(): blank, tab, newline
IsSpace(c) == c \in {" ", "<tab>", "<nl>"}

DigitVal(c) == (CHOOSE i \in 1..10 : Digits[i] = c) - 1
UpperChar(c) == IF IsLowerChar(c) THEN UpperCase[CHOOSE i \in 1..26 : LowerCase[i] = c] ELSE c
LowerChar(c) == IF IsUpperChar(c) THEN LowerCase[CHOOSE i \in 1..26 : UpperCase[i] = c] ELSE c

\* str.upper(), str.lower()
Upper(s) == [i \in DOMAIN s |-> UpperChar(s[i])]
Lower(s) == [i \in DOMAIN s |-> LowerChar(s[i])]

AllDigits(s) == \A i \in DOMAIN s : IsDigit(s[i])

\* int() of a non-empty string of digits
RECURSIVE DigitsToInt(_)
DigitsToInt(s) ==
  IF s = <<>> THEN 0 ELSE 10 * DigitsToInt(SubSeq(s, 1, Len(s) - 1)) + DigitVal(s[Len(s)])

\* str() of a natural number
RECURSIVE NatToStr(_)
NatToStr(n) ==
  IF n < 10 THEN <<Digits[n + 1]>> ELSE NatToStr(n \div 10) \o <<Digits[(n % 10) + 1]>>

\* str.strip()
RECURSIVE LStrip(_)
LStrip(s) == IF s # <<>> /\ IsSpace(s[1]) THEN LStrip(Tail(s)) ELSE s
RECURSIVE RStrip(_)
RStrip(s) == IF s # <<>> /\ IsSpace(s[Len(s)]) THEN RStrip(SubSeq(s, 1, Len(s) - 1)) ELSE s
Strip(s) == RStrip(LStrip(s))

\* s.startswith(p), p in s
StartsWith(s, p) == Len(s) >= Len(p) /\ SubSeq(s, 1, Len(p)) = p
Contains(s, c) == \E i \in DOMAIN s : s[i] = c

\* s.replace(c, r) for a one-character c
RECURSIVE ReplaceChar(_, _, _)
ReplaceChar(s, c, r) ==
  IF s = <<>> THEN <<>>
  ELSE (IF s[1] = c THEN r ELSE <<s[1]>>) \o ReplaceChar(Tail(s), c, r)

-----------------------------------------------------------------------------
(* cleanse.py: lookup tables *)

COUNTRY_CODE ==
  [k \in {<<"U","S">>, <<"C","A">>, <<"G","B">>, <<"U","K">>, <<"F","R">>,
          <<"D","E">>, <<"E","S">>, <<"C","N">>, <<"J","P">>, <<"I","N">>} |->
     CASE k = <<"U","S">> -> <<"+","1">>
       [] k = <<"C","A">> -> <<"+","1">>
       [] k = <<"G","B">> -> <<"+","4","4">>
       [] k = <<"U","K">> -> <<"+","4","4">>
       [] k = <<"F","R">> -> <<"+","3","3">>
       [] k = <<"D","E">> -> <<"+","4","9">>
       [] k = <<"E","S">> -> <<"+","3","4">>
       [] k = <<"C","N">> -> <<"+","8","6">>
       [] k = <<"J","P">> -> <<"+","8","1">>
       [] k = <<"I","N">> -> <<"+","9","1">>]

-----------------------------------------------------------------------------
(* cleanse.py: parse_date.  A calendar date is [y, m, d]. *)

IsLeap(y) == (y % 4 = 0 /\ y % 100 # 0) \/ y % 400 = 0
DaysInMonth(y, m) ==
  IF m = 2 THEN (IF IsLeap(y) THEN 29 ELSE 28)
  ELSE IF m \in {4, 6, 9, 11} THEN 30 ELSE 31
ValidDate(y, m, d) == m \in 1..12 /\ d >= 1 /\ d <= DaysInMonth(y, m)
Date(y, m, d) == [y |-> y, m |-> m, d |-> d]

\* datetime arithmetic of astimezone / utc=True: the date k days away, k in -1..1
AddDays(dt, k) ==
  IF k = 0 THEN dt
  ELSE IF k = 1
    THEN IF dt.d < DaysInMonth(dt.y, dt.m) THEN Date(dt.y, dt.m, dt.d + 1)
         ELSE IF dt.m < 12 THEN Date(dt.y, dt.m + 1, 1)
         ELSE Date(dt.y + 1, 1, 1)
  ELSE IF dt.d > 1 THEN Date(dt.y, dt.m, dt.d - 1)
       ELSE IF dt.m > 1 THEN Date(dt.y, dt.m - 1, DaysInMonth(dt.y, dt.m - 1))
       ELSE Date(dt.y - 1, 12, 31)

Pad2(n) == IF n < 10 THEN <<"0">> \o NatToStr(n) ELSE NatToStr(n)
Pad4(n) ==
  IF n < 10 THEN <<"0", "0", "0">> \o NatToStr(n)
  ELSE IF n < 100 THEN <<"0", "0">> \o NatToStr(n)
  ELSE IF n < 1000 THEN <<"0">> \o NatToStr(n)
  ELSE NatToStr(n)

\* date.isoformat()
isoformat(dt) == Pad4(dt.y) \o <<"-">> \o Pad2(dt.m) \o <<"-">> \o Pad2(dt.d)

\* s.split(c)
RECURSIVE Split(_, _)
Split(s, c) ==
  IF ~Contains(s, c) THEN <<s>>
  ELSE LET i == CHOOSE i \in DOMAIN s : s[i] = c /\ \A j \in 1..(i - 1) : s[j] # c
       IN  <<SubSeq(s, 1, i - 1)>> \o Split(SubSeq(s, i + 1, Len(s)), c)

\* a field of lo..hi digits
IsNum(tok, lo, hi) == Len(tok) >= lo /\ Len(tok) <= hi /\ AllDigits(tok)

\* %y: POSIX pivot, 69..99 -> 19yy, 00..68 -> 20yy
TwoDigitYear(yy) == IF yy >= 69 THEN 1900 + yy ELSE 2000 + yy

\* the date part "YYYY-MM-DD"
IsoDateOf(p) ==
  LET parts == Split(p, "-")
  IN  IF Len(parts) = 3 /\ IsNum(parts[1], 4, 4) /\ IsNum(parts[2], 1, 2)
           /\ IsNum(parts[3], 1, 2)
           /\ ValidDate(DigitsToInt(parts[1]), DigitsToInt(parts[2]), DigitsToInt(parts[3]))
        THEN Some(Date(DigitsToInt(parts[1]), DigitsToInt(parts[2]), DigitsToInt(parts[3])))
      ELSE None

\* the clock "HH:MM:SS": seconds since midnight
ClockOf(t) ==
  LET parts == Split(t, ":")
  IN  IF Len(parts) = 3 /\ IsNum(parts[1], 1, 2) /\ IsNum(parts[2], 2, 2)
           /\ IsNum(parts[3], 2, 2)
           /\ DigitsToInt(parts[1]) <= 23 /\ DigitsToInt(parts[2]) <= 59
           /\ DigitsToInt(parts[3]) <= 59
        THEN Some(3600 * DigitsToInt(parts[1]) + 60 * DigitsToInt(parts[2])
                    + DigitsToInt(parts[3]))
      ELSE None

\* %z: "+HHMM", "+HH:MM" or "Z": the offset in seconds
OffsetOf(o) ==
  IF o = <<"Z">> THEN Some(0)
  ELSE IF o # <<>> /\ o[1] \in {"+", "-"}
    THEN LET hm == SelectSeq(Tail(o), LAMBDA c : c # ":")
         IN  IF IsNum(hm, 4, 4) /\ Len(Tail(o)) <= 5
                  /\ (Len(Tail(o)) = 5 => o[4] = ":")
                  /\ DigitsToInt(SubSeq(hm, 3, 4)) <= 59
               THEN LET secs == 3600 * DigitsToInt(SubSeq(hm, 1, 2))
                                  + 60 * DigitsToInt(SubSeq(hm, 3, 4))
                    IN  Some(IF o[1] = "-" THEN 0 - secs ELSE secs)
             ELSE None
  ELSE None

\* where the offset of a time part starts (0: no offset)
OffsetStart(t) ==
  IF \E i \in DOMAIN t : t[i] \in {"+", "-", "Z"}
    THEN CHOOSE i \in DOMAIN t :
           t[i] \in {"+", "-", "Z"} /\ \A j \in 1..(i - 1) : t[j] \notin {"+", "-", "Z"}
  ELSE 0

\* floor division by the seconds of a day, for -1 day .. +2 days
DayShift(secs) == IF secs < 0 THEN 0 - 1 ELSE IF secs >= 86400 THEN 1 ELSE 0

\* "YYYY-MM-DDTHH:MM:SS[offset]" -> the UTC calendar date; needOffset is
\* "yes" (%z in the format), "no" (no offset allowed) or "any"
IsoDateTimeOf(s, needOffset) ==
  LET halves == Split(s, "T")
  IN  IF Len(halves) # 2 THEN None
      ELSE
        LET day == IsoDateOf(halves[1])
            k == OffsetStart(halves[2])
            clock == ClockOf(IF k = 0 THEN halves[2] ELSE SubSeq(halves[2], 1, k - 1))
            off == IF k = 0 THEN Some(0)
                   ELSE OffsetOf(SubSeq(halves[2], k, Len(halves[2])))
        IN  IF day = None \/ clock = None \/ off = None THEN None
            ELSE IF needOffset = "yes" /\ k = 0 THEN None
            ELSE IF needOffset = "no" /\ k # 0 THEN None
            ELSE Some(AddDays(Val(day), DayShift(Val(clock) - Val(off))))

\* three numeric fields around one separator, the year last: first and
\* second say which is the month
DelimitedOf(s, sep, yearLen, order) ==
  LET parts == Split(s, sep)
  IN  IF Len(parts) = 3 /\ IsNum(parts[1], 1, 2) /\ IsNum(parts[2], 1, 2)
           /\ IsNum(parts[3], yearLen, yearLen)
        THEN LET a == DigitsToInt(parts[1])
                 b == DigitsToInt(parts[2])
                 y == IF yearLen = 2 THEN TwoDigitYear(DigitsToInt(parts[3]))
                      ELSE DigitsToInt(parts[3])
                 monthFirst == order = "mdy" \/ (order = "guess" /\ a <= 12)
                 m == IF monthFirst THEN a ELSE b
                 d == IF monthFirst THEN b ELSE a
             IN  IF ValidDate(y, m, d) THEN Some(Date(y, m, d)) ELSE None
      ELSE None

FirstSome(opts) ==
  IF \E i \in DOMAIN opts : opts[i] # None
    THEN opts[CHOOSE i \in DOMAIN opts : opts[i] # None /\ \A j \in 1..(i - 1) : opts[j] = None]
  ELSE None

\* pd.to_datetime(s, utc=True, errors="raise", dayfirst=False), on the texts
\* of the model (ISO dates and date-times, delimited numeric dates, years
\* inside the Timestamp range): None when it raises.  A delimited date is
\* read month first; the first field is the day only when it exceeds 12.
to_datetime(s) ==
  IF Contains(s, "T") THEN IsoDateTimeOf(s, "any")
  ELSE FirstSome(<<IsoDateOf(s),
                   DelimitedOf(s, "/", 4, "guess"), DelimitedOf(s, "-", 4, "guess"),
                   DelimitedOf(s, "/", 2, "guess"), DelimitedOf(s, "-", 2, "guess")>>)

DATE_FORMATS == <<"%Y-%m-%d", "%Y-%m-%dT%H:%M:%S%z", "%Y-%m-%dT%H:%M:%S", "%m/%d/%Y",
                  "%d-%m-%Y", "%m/%d/%y", "%d/%m/%Y">>

\* datetime.strptime(s, fmt), then the UTC calendar date: None when it raises
strptime(s, fmt) ==
  CASE fmt = "%Y-%m-%d" -> IF Contains(s, "T") THEN None ELSE IsoDateOf(s)
    [] fmt = "%Y-%m-%dT%H:%M:%S%z" -> IsoDateTimeOf(s, "yes")
    [] fmt = "%Y-%m-%dT%H:%M:%S" -> IsoDateTimeOf(s, "no")
    [] fmt = "%m/%d/%Y" -> DelimitedOf(s, "/", 4, "mdy")
    [] fmt = "%d-%m-%Y" -> DelimitedOf(s, "-", 4, "dmy")
    [] fmt = "%m/%d/%y" -> DelimitedOf(s, "/", 2, "mdy")
    [] fmt = "%d/%m/%Y" -> DelimitedOf(s, "/", 4, "dmy")

\* the fallback loop over DATE_FORMATS
ManualFallback(s) == FirstSome([i \in DOMAIN DATE_FORMATS |-> strptime(s, DATE_FORMATS[i])])

\* parse_date without its first attempt: the format list alone
DateOfText_FormatsOnly(s) == ManualFallback(s)

\* the two attempts of parse_date on the stripped text
DateOfText(s) == IF to_datetime(s) # None THEN to_datetime(s) ELSE ManualFallback(s)

parse_date(s) ==
  IF ~Truthy(s) THEN None
  ELSE LET dt == DateOfText(Strip(Val(s)))
       IN  IF dt = None THEN None ELSE Some(isoformat(Val(dt)))

-----------------------------------------------------------------------------
(* cleanse.py: normalize_phone *)

\* the digit count below which a "+..." text is not taken as international
MinIntlDigits == 8

\* re.sub(r"[^\d+]", "", s): every digit and every "+" is kept
KeepDigitsPlus(s) == SelectSeq(s, LAMBDA c : IsDigit(c) \/ c = "+")
\* re.sub(r"\D", "", s)
KeepDigits(s) == SelectSeq(s, LAMBDA c : IsDigit(c))
\* re.sub(r"^0+", "", s)
RECURSIVE StripLeadingZeros(_)
StripLeadingZeros(s) ==
  IF s # <<>> /\ s[1] = "0" THEN StripLeadingZeros(Tail(s)) ELSE s

normalize_phone(phone_raw, country) ==
  IF ~Truthy(phone_raw) THEN None
  ELSE
    LET digits == KeepDigitsPlus(Val(phone_raw))
        ckey == Upper(IF Truthy(country) THEN Val(country) ELSE <<>>)
        cc == IF ckey \in DOMAIN COUNTRY_CODE THEN Some(COUNTRY_CODE[ckey]) ELSE None
        national == KeepDigits(digits)
    IN  IF StartsWith(digits, <<"+">>) /\ Len(KeepDigits(digits)) >= MinIntlDigits
          THEN Some(digits)
        ELSE IF cc # None /\ national # <<>>
          THEN Some(Val(cc) \o StripLeadingZeros(national))
        ELSE IF national # <<>> THEN Some(national) ELSE None

-----------------------------------------------------------------------------
(* cleanse.py: parse_quantity *)

WORD_TO_INT ==
  <<<<"z","e","r","o">>, <<"o","n","e">>, <<"t","w","o">>, <<"t","h","r","e","e">>,
    <<"f","o","u","r">>, <<"f","i","v","e">>, <<"s","i","x">>, <<"s","e","v","e","n">>,
    <<"e","i","g","h","t">>, <<"n","i","n","e">>, <<"t","e","n">>>>

\* re.fullmatch(r"-?\d+", qn)
IsIntText(qn) ==
  LET body == IF qn # <<>> /\ qn[1] = "-" THEN Tail(qn) ELSE qn
  IN  body # <<>> /\ AllDigits(body)

\* int(qn) for a text IsIntText accepts
IntOfText(qn) ==
  IF qn[1] = "-" THEN 0 - DigitsToInt(Tail(qn)) ELSE DigitsToInt(qn)

parse_quantity(q) ==
  IF q = None \/ Val(q) = <<>> THEN None
  ELSE
    LET qn == Lower(Strip(Val(q)))
    IN  IF \E i \in DOMAIN WORD_TO_INT : WORD_TO_INT[i] = qn
          THEN Some((CHOOSE i \in DOMAIN WORD_TO_INT : WORD_TO_INT[i] = qn) - 1)
        ELSE IF IsIntText(qn) THEN Some(IntOfText(qn))
        ELSE None

-----------------------------------------------------------------------------
(* cleanse.py: detect_currency_from_text *)

\* the dict CURRENCY_SYMBOL in insertion order; the signs for euro, pound,
\* yen and the two CJK characters are named
CURRENCY_SYMBOL ==
  <<[sym |-> "$", code |-> <<"U","S","D">>],
    [sym |-> "<euro>", code |-> <<"E","U","R">>],
    [sym |-> "<pound>", code |-> <<"G","B","P">>],
    [sym |-> "<yen>", code |-> <<"J","P","Y">>],
    [sym |-> "<yuan>", code |-> <<"C","N","Y">>],
    [sym |-> "<en>", code |-> <<"J","P","Y">>]>>

\* \b([A-Z]{3})\b matches at position i
IsoTokenAt(txt, i) ==
  /\ i + 2 <= Len(txt)
  /\ \A k \in i..(i + 2) : IsUpperChar(txt[k])
  /\ (i = 1 \/ ~IsWordChar(txt[i - 1]))
  /\ (i + 3 > Len(txt) \/ ~IsWordChar(txt[i + 3]))

detect_currency_from_text(txt) ==
  IF txt = <<>> THEN None
  ELSE IF \E i \in DOMAIN txt : IsoTokenAt(txt, i)
    THEN LET i == CHOOSE i \in DOMAIN txt :
                    IsoTokenAt(txt, i) /\ \A j \in 1..(i - 1) : ~IsoTokenAt(txt, j)
         IN  Some(SubSeq(txt, i, i + 2))
  ELSE IF \E k \in DOMAIN CURRENCY_SYMBOL : Contains(txt, CURRENCY_SYMBOL[k].sym)
    THEN LET k == CHOOSE k \in DOMAIN CURRENCY_SYMBOL :
                    /\ Contains(txt, CURRENCY_SYMBOL[k].sym)
                    /\ \A j \in 1..(k - 1) : ~Contains(txt, CURRENCY_SYMBOL[j].sym)
         IN  Some(CURRENCY_SYMBOL[k].code)
  ELSE None

-----------------------------------------------------------------------------
(* cleanse.py: parse_price.  A float is the exact decimal num / 10^scale,
   kept with no trailing zero in the fraction; the texts of the model have
   at most 15 significant digits, which a double holds exactly enough for
   float() and str() to round-trip. *)

RECURSIVE NormDec(_, _)
NormDec(num, scale) ==
  IF scale > 0 /\ num % 10 = 0 THEN NormDec(num \div 10, scale - 1)
  ELSE [num |-> num, scale |-> scale]

CountChar(s, c) == Cardinality({i \in DOMAIN s : s[i] = c})

\* float(s) succeeds: s is over digits, "." and "-" when it gets here
IsFloatText(s) ==
  LET body == IF s # <<>> /\ s[1] = "-" THEN Tail(s) ELSE s
  IN  /\ \A i \in DOMAIN body : IsDigit(body[i]) \/ body[i] = "."
      /\ CountChar(body, ".") <= 1
      /\ \E i \in DOMAIN body : IsDigit(body[i])

FloatOfText(s) ==
  LET neg == s[1] = "-"
      body == IF neg THEN Tail(s) ELSE s
      frac == IF Contains(body, ".")
                THEN Len(body) - (CHOOSE i \in DOMAIN body : body[i] = ".")
                ELSE 0
      mag == DigitsToInt(KeepDigits(body))
  IN  NormDec(IF neg THEN 0 - mag ELSE mag, frac)

\* re.sub(r"([A-Z]{3}|USD|EUR|...)", "", s, flags=re.I): every run of three
\* letters goes, leftmost first
RECURSIVE RemoveLetterTriples(_)
RemoveLetterTriples(s) ==
  IF s = <<>> THEN <<>>
  ELSE IF Len(s) >= 3 /\ IsLetter(s[1]) /\ IsLetter(s[2]) /\ IsLetter(s[3])
    THEN RemoveLetterTriples(SubSeq(s, 4, Len(s)))
  ELSE <<s[1]>> \o RemoveLetterTriples(Tail(s))

\* for sym in CURRENCY_SYMBOL.keys(): s = s.replace(sym, "")
RemoveSymbols(s) ==
  SelectSeq(s, LAMBDA c : \A k \in DOMAIN CURRENCY_SYMBOL : CURRENCY_SYMBOL[k].sym # c)

\* re.search(r"\d+,\d{2}\b", s)
HasDecimalComma(s) ==
  \E i \in DOMAIN s :
    /\ s[i] = ","
    /\ i > 1 /\ IsDigit(s[i - 1])
    /\ i + 2 <= Len(s) /\ IsDigit(s[i + 1]) /\ IsDigit(s[i + 2])
    /\ (i + 3 > Len(s) \/ ~IsWordChar(s[i + 3]))

\* lines 149-156: the decimal separator
EuropeanFormat(s) == ReplaceChar(ReplaceChar(s, ".", <<>>), ",", <<".">>)
NormalizeSeparators(s) ==
  IF Contains(s, ",") /\ Contains(s, ".") THEN EuropeanFormat(s)
  ELSE IF HasDecimalComma(s) THEN ReplaceChar(s, ",", <<".">>)
  ELSE ReplaceChar(s, ",", <<>>)

\* re.sub(r"[^0-9.\-]", "", s)
KeepNumeric(s) == SelectSeq(s, LAMBDA c : IsDigit(c) \/ c = "." \/ c = "-")

\* x or "" for an Optional[str]
OrEmpty(o) == IF o = None THEN <<>> ELSE Val(o)

parse_price(value, currency_col) ==
  IF ~Truthy(value) /\ ~Truthy(currency_col) THEN [price |-> None, currency |-> None]
  ELSE
    LET s == Strip(OrEmpty(value))
        hint == Upper(Strip(OrEmpty(currency_col)))
        cur == IF hint # <<>> THEN Some(hint) ELSE detect_currency_from_text(s)
        s1 == Strip(RemoveSymbols(RemoveLetterTriples(s)))
        s2 == NormalizeSeparators(s1)
        s3 == KeepNumeric(ReplaceChar(s2, " ", <<>>))
        price == IF IsFloatText(s3) THEN Some(FloatOfText(s3)) ELSE None
    IN  [price |-> price,
         currency |-> IF Truthy(cur) THEN cur
                      ELSE detect_currency_from_text(OrEmpty(value))]

-----------------------------------------------------------------------------
(* io_utils.py: normalize_text *)

\* unicodedata.normalize("NFKC", s) on the characters of the model: the
\* no-break space and the fullwidth A have compatibility mappings
NFKC(s) ==
  [i \in DOMAIN s |->
     IF s[i] = "<nbsp>" THEN " " ELSE IF s[i] = "<fullwidth A>" THEN "A" ELSE s[i]]

\* " ".join(s.split())
RECURSIVE JoinWords(_)
JoinWords(s) ==
  LET t == LStrip(s)
  IN  IF t = <<>> THEN <<>>
      ELSE IF \E i \in DOMAIN t : IsSpace(t[i])
        THEN LET i == CHOOSE i \in DOMAIN t :
                        IsSpace(t[i]) /\ \A j \in 1..(i - 1) : ~IsSpace(t[j])
                 rest == JoinWords(SubSeq(t, i, Len(t)))
             IN  SubSeq(t, 1, i - 1) \o (IF rest = <<>> THEN <<>> ELSE <<" ">> \o rest)
      ELSE t

normalize_text(s) == IF s = None THEN None ELSE Some(JoinWords(Strip(NFKC(Val(s)))))

-----------------------------------------------------------------------------
(* cleanse.py: canonicalize_row *)

Columns == {"order_id", "customer_id", "customer_name", "email", "phone", "country",
            "state", "city", "address", "postal_code", "order_date", "ship_date",
            "ship_mode", "item_sku", "item_name", "quantity", "unit_price", "currency",
            "discount_code", "order_notes"}

\* def N(x): normalize_text(x) if x not in (None, "") else None
N(x) == IF x = None \/ Val(x) = <<>> THEN None ELSE normalize_text(x)

\* lines 238-242: int() of the digits of the raw order_id; int("") raises
CanonOrderId(o) ==
  IF ~Truthy(o) THEN None
  ELSE IF KeepDigits(Val(o)) = <<>> THEN None
  ELSE Some(DigitsToInt(KeepDigits(Val(o))))

\* (raw.get("country") or "").upper() or None
CanonCountry(c) == IF Upper(OrEmpty(c)) = <<>> THEN None ELSE Some(Upper(OrEmpty(c)))

canonicalize_row(raw) ==
  LET pr == parse_price(raw.unit_price, raw.currency)
  IN  [order_id |-> CanonOrderId(raw.order_id),
       customer_id |-> N(raw.customer_id),
       customer_name |-> N(raw.customer_name),
       email |-> N(raw.email),
       phone |-> normalize_phone(raw.phone, raw.country),
       country |-> CanonCountry(raw.country),
       state |-> N(raw.state),
       city |-> N(raw.city),
       address |-> N(raw.address),
       postal_code |-> N(raw.postal_code),
       order_date |-> parse_date(raw.order_date),
       ship_date |-> parse_date(raw.ship_date),
       ship_mode |-> N(raw.ship_mode),
       item_sku |-> N(raw.item_sku),
       item_name |-> N(raw.item_name),
       quantity |-> parse_quantity(raw.quantity),
       unit_price |-> pr.price,
       currency |-> pr.currency,
       discount_code |-> N(raw.discount_code),
       order_notes |-> N(raw.order_notes)]

-----------------------------------------------------------------------------
(* cleanse.py: validate_row_canonical *)

\* re.match(r"^[^@\s]+@[^@\s]+\.[^@\s]+$", email)
EmailMatches(e) ==
  /\ \A i \in DOMAIN e : ~IsSpace(e[i])
  /\ CountChar(e, "@") = 1
  /\ \E i \in DOMAIN e, j \in DOMAIN e :
       e[i] = "@" /\ e[j] = "." /\ 1 < i /\ i + 1 < j /\ j < Len(e)

\* < on str, by code point: "-" sorts before the digits
CharOrd(c) == IF IsDigit(c) THEN DigitVal(c) + 1 ELSE 0
RECURSIVE StrLess(_, _)
StrLess(a, b) ==
  IF b = <<>> THEN FALSE
  ELSE IF a = <<>> THEN TRUE
  ELSE IF a[1] # b[1] THEN CharOrd(a[1]) < CharOrd(b[1])
  ELSE StrLess(Tail(a), Tail(b))

\* errs = [reason] in place of errs.append(reason)
AppendIf_Overwrite(errs, cond, reason) == IF cond THEN <<reason>> ELSE errs

\* errs.append(reason) under a condition
AppendIf(errs, cond, reason) == IF cond THEN Append(errs, reason) ELSE errs

validate_row_canonical(row) ==
  LET od == row.order_date
      sd == row.ship_date
      q == row.quantity
      p == row.unit_price
      email == row.email
      e1 == AppendIf(<<>>, row.order_id = None, "missing order_id")
      e2 == AppendIf(e1, ~Truthy(od), "invalid order_date")
      e3 == AppendIf(e2, Truthy(sd) /\ Truthy(od) /\ StrLess(Val(sd), Val(od)),
                     "ship_date earlier than order_date")
      e4 == IF q = None THEN Append(e3, "invalid quantity")
            ELSE AppendIf(e3, Val(q) < 0, "negative quantity")
      e5 == IF p = None THEN Append(e4, "invalid unit_price")
            ELSE AppendIf(e4, Val(p).num < 0, "negative unit_price")
      e6 == AppendIf(e5, ~Truthy(row.currency), "missing currency")
      e7 == AppendIf(e6, ~Truthy(row.item_sku), "missing item_sku")
      e8 == AppendIf(e7, Truthy(email) /\ ~EmailMatches(Val(email)), "invalid email")
      e9 == AppendIf(e8, email = None /\ row.phone = None /\ row.address = None,
                     "Contact info Missing")
      e10 == AppendIf(e9, row.customer_id = None /\ row.customer_name = None,
                      "Customer info Missing")
  IN  e10

-----------------------------------------------------------------------------
(* io_utils.py: df_to_json_row; main.py: process_dataframe *)

\* the JSON object of a row: an empty cell is written as null
df_to_json_row(row) == [c \in DOMAIN row |-> IF row[c] = Some(<<>>) THEN None ELSE row[c]]

\* DataFrame.drop_duplicates() with every copy of a repeated row removed
\* (keep=False)
drop_duplicates_KeepNone(frame) ==
  SelectSeq(frame, LAMBDA r : Cardinality({i \in DOMAIN frame : frame[i] = r}) = 1)

\* DataFrame.drop_duplicates(): the first occurrence of every row, in order
RECURSIVE drop_duplicates(_)
drop_duplicates(frame) ==
  IF frame = <<>> THEN <<>>
  ELSE LET init == SubSeq(frame, 1, Len(frame) - 1)
           last == frame[Len(frame)]
       IN  IF \E i \in DOMAIN init : init[i] = last THEN drop_duplicates(init)
           ELSE Append(drop_duplicates(init), last)

\* groupby(..., dropna=False) labels a missing key NaN: pandas factorizes an
\* object column with its nulls replaced by np.nan, so a None cell is
\* grouped, and listed in the result index, as NaN
NaN == Some(<<"<NaN>">>)
GroupLabel(v) == IF v = None THEN NaN ELSE v
GroupKey(row) == <<GroupLabel(row.order_id), GroupLabel(row.item_sku)>>

\* key_counts = df_nodup.groupby(["order_id", "item_sku"], dropna=False).size()
key_counts(frame) ==
  [k \in {GroupKey(frame[i]) : i \in DOMAIN frame} |->
     Cardinality({i \in DOMAIN frame : GroupKey(frame[i]) = k})]

\* conflict_keys = set(k for k, v in key_counts.items() if v > 1)
ConflictKeys(frame) == {k \in DOMAIN key_counts(frame) : key_counts(frame)[k] > 1}

\* key = (row.get("order_id"), row.get("item_sku")): the cells themselves,
\* None where the cell is None; (None, x) == (nan, x) is False in Python
RowKey(row) == <<row.order_id, row.item_sku>>

ConflictReason == "conflicting duplicate key (order_id, item_sku)"

\* lines 36-40: the validator's reasons, then the conflict reason
RowErrs(row, canon, keys) ==
  LET errs == validate_row_canonical(canon)
  IN  IF RowKey(row) \in keys THEN Append(errs, ConflictReason) ELSE errs

\* "; ".join(errs)
RECURSIVE JoinReasons(_)
JoinReasons(errs) ==
  IF errs = <<>> THEN ""
  ELSE IF Len(errs) = 1 THEN errs[1]
  ELSE errs[1] \o "; " \o JoinReasons(Tail(errs))

\* the tuple appended to bad_rows at line 44
BadRow(row, errs, ts) ==
  <<row.order_id, row.item_sku, JoinReasons(errs), df_to_json_row(row), ts>>

\* lines 43-46 with the else lost: the record is appended in any case
CleanAfter_Always(clean, canon, errs) == Append(clean, canon)

\* lines 43-46: the two output lists after one row
CleanAfter(clean, canon, errs) == IF errs = <<>> THEN Append(clean, canon) ELSE clean
BadAfter(bad, row, errs, ts) ==
  IF errs # <<>> THEN Append(bad, BadRow(row, errs, ts)) ELSE bad

-----------------------------------------------------------------------------
(* Inputs of the phone specification *)

PhonePrefixes == {<<>>, <<"+">>, <<"0">>, <<"0", "0">>, <<"(", "+", "1", ")">>}
PhoneMiddles == {<<>>, <<" ", "-">>, <<"5", "5", "5">>, <<"5", "+", "5">>}
PhoneTails == {<<>>, <<"1", "2">>, <<"1", "2", "3", "4", "5", "6", "7">>,
               <<"7", "1", "2", "3", "4", "5", "6", "7", "8">>}
PhoneTexts ==
  {p \o m \o t : p \in PhonePrefixes, m \in PhoneMiddles, t \in PhoneTails}
    \cup {<<"+", "1", " ", "(", "5", "5", "5", ")", " ", "1", "2", "3", "-", "4", "5", "6", "7">>}
PhoneInputs == {None} \cup {Some(t) : t \in PhoneTexts}
CountryInputs == {None, Some(<<>>), Some(<<"F", "R">>), Some(<<"f", "r">>),
                  Some(<<"U", "K">>), Some(<<"G", "B">>), Some(<<"X", "X">>)}

IdleBatch ==
  /\ df = <<>> /\ df_nodup = <<>> /\ dropped_exact_dupes_count = 0
  /\ conflict_keys = {} /\ conflicting_dupes_count = 0 /\ idx = 0
  /\ clean_rows = <<>> /\ bad_rows = <<>> /\ ingested_at = None

PhoneInit ==
  /\ pc = "call"
  /\ args \in [phone_raw : PhoneInputs, country : CountryInputs]
  /\ ret = None
  /\ IdleBatch

NormalizePhone ==
  /\ pc = "call"
  /\ ret' = normalize_phone(args.phone_raw, args.country)
  /\ pc' = "done"
  /\ UNCHANGED <<args, batchVars>>

PhoneNext == NormalizePhone

PhoneSpec == PhoneInit /\ [][PhoneNext]_vars

-----------------------------------------------------------------------------
(* Inputs of the price specification *)

PriceHeads == {<<>>, <<"$">>, <<"<euro>">>, <<"U", "S", "D", " ">>, <<"-">>}
PriceUnits == {<<"1">>, <<"1", "4", "9">>, <<"1", ".", "2", "3", "4">>,
               <<"1", ",", "2", "3", "4">>}
PriceCents == {<<>>, <<",", "5", "6">>, <<".", "5", "6">>, <<",", "9", "9">>, <<",", "5">>}
PriceTexts == {h \o u \o c : h \in PriceHeads, u \in PriceUnits, c \in PriceCents}
PriceInputs == {None, Some(<<>>)} \cup {Some(t) : t \in PriceTexts}
CurrencyInputs == {None, Some(<<>>), Some(<<"E", "U", "R">>), Some(<<" ", "u", "s", "d">>)}

PriceInit ==
  /\ pc = "call"
  /\ args \in [value : PriceInputs, currency_col : CurrencyInputs]
  /\ ret = None
  /\ IdleBatch

ParsePrice ==
  /\ pc = "call"
  /\ ret' = parse_price(args.value, args.currency_col)
  /\ pc' = "done"
  /\ UNCHANGED <<args, batchVars>>

PriceNext == ParsePrice

PriceSpec == PriceInit /\ [][PriceNext]_vars

(* C7: with no currency hint parse_price gives the amount 1234.56 for
   "1.234,56" and (1234.56, "USD") for "$1,234.56"; with the hint "EUR" it
   gives (149.99, "EUR") for "149,99". *)
Dec(num, scale) == [num |-> num, scale |-> scale]
C7_PriceExamples ==
  pc = "done" =>
    /\ (args = [value |-> Some(<<"1", ".", "2", "3", "4", ",", "5", "6">>),
                currency_col |-> None]
          => ret.price = Some(Dec(123456, 2)))
    /\ (args = [value |-> Some(<<"$", "1", ",", "2", "3", "4", ".", "5", "6">>),
                currency_col |-> None]
          => ret = [price |-> Some(Dec(123456, 2)), currency |-> Some(<<"U", "S", "D">>)])
    /\ (args = [value |-> Some(<<"1", "4", "9", ",", "9", "9">>),
                currency_col |-> Some(<<"E", "U", "R">>)]
          => ret = [price |-> Some(Dec(14999, 2)), currency |-> Some(<<"E", "U", "R">>)])

-----------------------------------------------------------------------------
(* Inputs of the date specification: a date, a format of DATE_FORMATS, and
   for the date-time formats a UTC clock and an offset; the text is the
   date rendered by strftime in that format. *)

DateYears == {1999, 2020, 2024}
DateMonths == {1, 2, 3, 4, 12}
DateDays == {1, 3, 4, 12, 13, 28, 29, 31}
DateInputs ==
  {Date(y, m, d) : y \in DateYears, m \in DateMonths, d \in DateDays}
    \cap {dt \in [y : DateYears, m : DateMonths, d : DateDays] : ValidDate(dt.y, dt.m, dt.d)}
ClockInputs == {0, 84600}
OffsetInputs == {0, 0 - 18000, 19800}

ClockText(secs) ==
  Pad2(secs \div 3600) \o <<":">> \o Pad2((secs % 3600) \div 60) \o <<":">> \o Pad2(secs % 60)
OffsetText(off) ==
  LET mag == IF off < 0 THEN 0 - off ELSE off
  IN  <<IF off < 0 THEN "-" ELSE "+">> \o Pad2(mag \div 3600) \o Pad2((mag % 3600) \div 60)

\* strftime of the instant (UTC date dt, UTC clock) in the format; with %z
\* the local date and clock at the offset are written
Render(dt, fmt, clock, off) ==
  CASE fmt = "%Y-%m-%d" -> isoformat(dt)
    [] fmt = "%Y-%m-%dT%H:%M:%S%z" ->
         isoformat(AddDays(dt, DayShift(clock + off))) \o <<"T">>
           \o ClockText((clock + off + 86400) % 86400) \o OffsetText(off)
    [] fmt = "%Y-%m-%dT%H:%M:%S" -> isoformat(dt) \o <<"T">> \o ClockText(clock)
    [] fmt = "%m/%d/%Y" -> Pad2(dt.m) \o <<"/">> \o Pad2(dt.d) \o <<"/">> \o Pad4(dt.y)
    [] fmt = "%d-%m-%Y" -> Pad2(dt.d) \o <<"-">> \o Pad2(dt.m) \o <<"-">> \o Pad4(dt.y)
    [] fmt = "%m/%d/%y" -> Pad2(dt.m) \o <<"/">> \o Pad2(dt.d) \o <<"/">> \o Pad2(dt.y % 100)
    [] fmt = "%d/%m/%Y" -> Pad2(dt.d) \o <<"/">> \o Pad2(dt.m) \o <<"/">> \o Pad4(dt.y)

HasClock(fmt) == fmt \in {"%Y-%m-%dT%H:%M:%S%z", "%Y-%m-%dT%H:%M:%S"}

DateInit ==
  /\ pc = "render"
  /\ \E dt \in DateInputs, f \in DOMAIN DATE_FORMATS, c \in ClockInputs, o \in OffsetInputs :
       /\ (~HasClock(DATE_FORMATS[f]) => c = 0)
       /\ (DATE_FORMATS[f] # "%Y-%m-%dT%H:%M:%S%z" => o = 0)
       /\ args = [d |-> dt, fmt |-> DATE_FORMATS[f], clock |-> c, off |-> o, text |-> None]
  /\ ret = None
  /\ IdleBatch

RenderDate ==
  /\ pc = "render"
  /\ args' = [args EXCEPT !.text = Some(Render(args.d, args.fmt, args.clock, args.off))]
  /\ pc' = "call"
  /\ UNCHANGED <<ret, batchVars>>

ParseDate ==
  /\ pc = "call"
  /\ ret' = parse_date(args.text)
  /\ pc' = "done"
  /\ UNCHANGED <<args, batchVars>>

DateNext == RenderDate \/ ParseDate

DateSpec == DateInit /\ [][DateNext]_vars

DayFirstFormats == {"%d-%m-%Y", "%d/%m/%Y"}
ReadMonthFirst(dt) == Date(dt.y, dt.d, dt.m)
-----------------------------------------------------------------------------
(* Inputs of the validator specification: canonical records *)

ValDates == {Date(2024, 1, 31), Date(2024, 2, 1), Date(2024, 12, 1)}
GoodEmails == {<<"a", "@", "b", ".", "c", "o">>, <<"a", ".", "b", "@", "c", ".", "d", ".", "e">>}
BadEmails == {<<"a", "@", "b">>, <<"a", " ", "b", "@", "c", ".", "d", "e">>,
              <<"@", "b", ".", "c", "o">>, <<"a", "@", "b", ".">>}
SomeText == Some(<<"x">>)

CanonInputs ==
  [order_id : {None, Some(7)},
   customer_id : {None, SomeText},
   customer_name : {None, SomeText},
   email : {None, Some(<<>>)} \cup {Some(e) : e \in GoodEmails \cup BadEmails},
   phone : {None, SomeText},
   country : {None},
   state : {None},
   city : {None},
   address : {None, SomeText},
   postal_code : {None},
   order_date : {None, Some(isoformat(Date(2024, 2, 1)))},
   ship_date : {None} \cup {Some(isoformat(d)) : d \in ValDates},
   ship_mode : {None},
   item_sku : {None, Some(<<>>), Some(<<"A">>)},
   item_name : {None},
   quantity : {None, Some(0 - 1), Some(0)},
   unit_price : {None, Some([num |-> 0 - 5, scale |-> 1]), Some([num |-> 0, scale |-> 0])},
   currency : {None, Some(<<>>), Some(<<"U", "S", "D">>)},
   discount_code : {None},
   order_notes : {None}]

ValidateInit ==
  /\ pc = "call"
  /\ args \in CanonInputs
  /\ ret = None
  /\ IdleBatch

ValidateRowCanonical ==
  /\ pc = "call"
  /\ ret' = validate_row_canonical(args)
  /\ pc' = "done"
  /\ UNCHANGED <<args, batchVars>>

ValidateNext == ValidateRowCanonical

ValidateSpec == ValidateInit /\ [][ValidateNext]_vars

(* C6: validate_row_canonical returns exactly the reasons of the rules that
   apply, in rule order 1..10, each rule judged on its own: a zero quantity
   or price gives no reason and no rule hides another. *)
RuleReasons ==
  <<"missing order_id", "invalid order_date", "ship_date earlier than order_date",
    "invalid quantity", "negative quantity", "invalid unit_price", "negative unit_price",
    "missing currency", "missing item_sku", "invalid email", "Contact info Missing",
    "Customer info Missing">>
DateBefore(a, b) ==
  a.y < b.y \/ (a.y = b.y /\ (a.m < b.m \/ (a.m = b.m /\ a.d < b.d)))
RuleApplies(row, reason) ==
  CASE reason = "missing order_id" -> row.order_id = None
    [] reason = "invalid order_date" -> row.order_date = None
    [] reason = "ship_date earlier than order_date" ->
         \E a \in ValDates, b \in ValDates :
           row.ship_date = Some(isoformat(a)) /\ row.order_date = Some(isoformat(b))
             /\ DateBefore(a, b)
    [] reason = "invalid quantity" -> row.quantity = None
    [] reason = "negative quantity" -> row.quantity \in {Some(0 - 1)}
    [] reason = "invalid unit_price" -> row.unit_price = None
    [] reason = "negative unit_price" -> row.unit_price \in {Some([num |-> 0 - 5, scale |-> 1])}
    [] reason = "missing currency" -> row.currency \in {None, Some(<<>>)}
    [] reason = "missing item_sku" -> row.item_sku \in {None, Some(<<>>)}
    [] reason = "invalid email" -> row.email \in {Some(e) : e \in BadEmails}
    [] reason = "Contact info Missing" ->
         row.email = None /\ row.phone = None /\ row.address = None
    [] reason = "Customer info Missing" ->
         row.customer_id = None /\ row.customer_name = None
C6_AllRulesInOrder ==
  pc = "done" => ret = SelectSeq(RuleReasons, LAMBDA r : RuleApplies(args, r))
C6_Witness ==
  /\ pc = "done"
  /\ args.quantity = Some(0) /\ args.unit_price = Some([num |-> 0, scale |-> 0])
  /\ ret = <<"missing order_id", "ship_date earlier than order_date", "invalid email",
             "Customer info Missing">>

-----------------------------------------------------------------------------
(* Inputs of the canonicalisation specification: raw rows, canonicalised,
   written back as strings and canonicalised again *)

\* str() of an int
IntToStr(n) == IF n < 0 THEN <<"-">> \o NatToStr(0 - n) ELSE NatToStr(n)

RECURSIVE Zeros(_)
Zeros(n) == IF n <= 0 THEN <<>> ELSE <<"0">> \o Zeros(n - 1)

\* str() of a float: repr, in exponent notation below 1e-04 and from 1e+16
FloatToStr(x) ==
  LET mag == IF x.num < 0 THEN 0 - x.num ELSE x.num
      sign == IF x.num < 0 THEN <<"-">> ELSE <<>>
      ds == NatToStr(mag)
      n == Len(ds)
      e == n - x.scale - 1
      abse == IF e < 0 THEN 0 - e ELSE e
  IN  IF mag = 0 THEN <<"0", ".", "0">>
      ELSE IF e < 0 - 4 \/ e >= 16
        THEN sign \o <<ds[1]>> \o (IF n > 1 THEN <<".">> \o Tail(ds) ELSE <<>>)
               \o <<"e", IF e < 0 THEN "-" ELSE "+">> \o Pad2(abse)
      ELSE IF x.scale = 0 THEN sign \o ds \o <<".", "0">>
      ELSE IF n > x.scale
        THEN sign \o SubSeq(ds, 1, n - x.scale) \o <<".">> \o SubSeq(ds, n - x.scale + 1, n)
      ELSE sign \o <<"0", ".">> \o Zeros(x.scale - n) \o ds

\* a canonical record as a raw row: every non-null field as a string
AsRawRow(canon) ==
  [c \in Columns |->
     IF canon[c] = None THEN None
     ELSE IF c = "order_id" \/ c = "quantity" THEN Some(IntToStr(Val(canon[c])))
     ELSE IF c = "unit_price" THEN Some(FloatToStr(Val(canon[c])))
     ELSE canon[c]]

BaseRow ==
  [order_id |-> Some(<<"7">>),
   customer_id |-> Some(<<"C", "1">>),
   customer_name |-> Some(<<"A", "n", "n">>),
   email |-> Some(<<"a", "@", "b", ".", "c", "o">>),
   phone |-> None,
   country |-> Some(<<"F", "R">>),
   state |-> None,
   city |-> Some(<<"L", "y", "o", "n">>),
   address |-> None,
   postal_code |-> None,
   order_date |-> Some(<<"2", "0", "2", "4", "-", "0", "2", "-", "0", "1">>),
   ship_date |-> Some(<<"0", "2", "/", "1", "3", "/", "2", "0", "2", "4">>),
   ship_mode |-> None,
   item_sku |-> Some(<<"A">>),
   item_name |-> None,
   quantity |-> Some(<<"2">>),
   unit_price |-> Some(<<"1", "0">>),
   currency |-> Some(<<"U", "S", "D">>),
   discount_code |-> None,
   order_notes |-> None]

RawOrderIds == {None, Some(<<"#", "7">>), Some(<<"O", "-", "0", "1", "2">>), Some(<<"a", "b">>)}
RawNames == {None, Some(<<>>), Some(<<" ">>),
             Some(<<" ", "A", "n", "n", " ", " ", "L", "<nbsp>">>)}
RawPhones == {None, Some(<<"1", "2", "3", "4", "5">>),
              Some(<<"0", "7", "1", "2", "3", "4", "5", "6", "7", "8">>),
              Some(<<"+", "1", " ", "5", "5", "5", "1", "2", "3", "4">>)}
RawCountries == {None, Some(<<"f", "r">>), Some(<<"X", "X">>)}
RawDates == {Some(<<"2", "5", "-", "0", "4", "-", "2", "0", "2", "4">>),
             Some(<<"0", "3", "/", "0", "4", "/", "2", "4">>), Some(<<"s", "o", "o", "n">>)}
RawQuantities == {Some(<<"T", "h", "r", "e", "e">>), Some(<<"-", "5">>),
                  Some(<<"1", ".", "5">>)}
RawPrices == {None, Some(<<"$", "5">>), Some(<<"1", ".", "2", "3", "4", ",", "5", "6">>),
              Some(<<"0", ".", "0", "0", "0", "0", "1">>)}
RawCurrencies == {None, Some(<<" ", "e", "u", "r">>)}

RawRowInputs ==
  {[BaseRow EXCEPT !.order_id = o, !.customer_name = n, !.phone = ph, !.country = c,
                   !.order_date = d, !.quantity = q, !.unit_price = pr, !.currency = cu] :
     o \in RawOrderIds, n \in RawNames, ph \in RawPhones, c \in RawCountries,
     d \in RawDates, q \in RawQuantities, pr \in RawPrices, cu \in RawCurrencies}

CanonInit ==
  /\ pc = "call"
  /\ args \in [raw : RawRowInputs, refed : {None}]
  /\ ret = [first |-> None, second |-> None]
  /\ IdleBatch

CanonicalizeRow ==
  /\ pc = "call"
  /\ ret' = [ret EXCEPT !.first = Some(canonicalize_row(args.raw))]
  /\ pc' = "render"
  /\ UNCHANGED <<args, batchVars>>

RenderBack ==
  /\ pc = "render"
  /\ args' = [args EXCEPT !.refed = Some(AsRawRow(Val(ret.first)))]
  /\ pc' = "recall"
  /\ UNCHANGED <<ret, batchVars>>

CanonicalizeAgain ==
  /\ pc = "recall"
  /\ ret' = [ret EXCEPT !.second = Some(canonicalize_row(Val(args.refed)))]
  /\ pc' = "done"
  /\ UNCHANGED <<args, batchVars>>

CanonNext == CanonicalizeRow \/ RenderBack \/ CanonicalizeAgain

CanonSpec == CanonInit /\ [][CanonNext]_vars

(* C8: canonicalising a canonical record written back as strings gives the
   same record in every field. *)
C8_CanonicalizeIdempotent == pc = "done" => ret.second = ret.first

(* C11: every string field of the record canonicalize_row returns is null
   or a non-empty string without leading, trailing or repeated whitespace;
   an empty or whitespace-only raw value gives null, never "". *)
StringFields == {"customer_id", "customer_name", "email", "phone", "country", "state",
                 "city", "address", "postal_code", "ship_mode", "item_sku", "item_name",
                 "currency", "discount_code", "order_notes"}
IsWhitespace(c) == IsSpace(c) \/ c = "<nbsp>"
Collapsed(t) ==
  /\ t # <<>>
  /\ ~IsWhitespace(t[1]) /\ ~IsWhitespace(t[Len(t)])
  /\ \A i \in 1..(Len(t) - 1) : ~(IsWhitespace(t[i]) /\ IsWhitespace(t[i + 1]))
Blank(v) == v # None /\ \A i \in DOMAIN Val(v) : IsWhitespace(Val(v)[i])
C11_StringFieldsNullOrCollapsed ==
  pc = "render" =>
    \A f \in StringFields :
      LET v == Val(ret.first)[f]
      IN  /\ v = None \/ Collapsed(Val(v))
          /\ (Blank(args.raw[f]) => v = None)

-----------------------------------------------------------------------------
(* The batch specification: process_dataframe on a DataFrame of raw rows.
   A cell is a string, empty for an empty CSV cell, or None (read_csv_loose
   turns the cells N/A, n/a and None into None). *)

MaxBatch == 4

WithPrice12(row) == [row EXCEPT !.unit_price = Some(<<"1", "2">>)]
RowKey7 == BaseRow
RowNoId == [BaseRow EXCEPT !.order_id = None]
RowEmptyId == [BaseRow EXCEPT !.order_id = Some(<<>>)]
RowHash7 == [BaseRow EXCEPT !.order_id = Some(<<"#", "7">>)]
RowPool == {RowKey7, WithPrice12(RowKey7), RowNoId, WithPrice12(RowNoId),
            RowEmptyId, WithPrice12(RowEmptyId), RowHash7}

RECURSIVE Frames(_)
Frames(n) ==
  IF n = 0 THEN {<<>>}
  ELSE Frames(n - 1) \cup {Append(f, r) : f \in {g \in Frames(n - 1) : Len(g) = n - 1}, r \in RowPool}

\* now_utc_str(): the clock at the call
Clock == {<<"2", "0", "2", "5", "-", "0", "1", "-", "0", "1", "T", "0", "0", ":", "0", "0", ":", "0", "0", "Z">>}

Init ==
  /\ pc = "start"
  /\ df \in Frames(MaxBatch)
  /\ args = None /\ ret = None
  /\ df_nodup = <<>> /\ dropped_exact_dupes_count = 0
  /\ conflict_keys = {} /\ conflicting_dupes_count = 0 /\ idx = 0
  /\ clean_rows = <<>> /\ bad_rows = <<>> /\ ingested_at = None

\* lines 18-20
Start ==
  /\ pc = "start"
  /\ clean_rows' = <<>> /\ bad_rows' = <<>>
  /\ \E ts \in Clock : ingested_at' = Some(ts)
  /\ pc' = "dedup"
  /\ UNCHANGED <<args, ret, df, df_nodup, dropped_exact_dupes_count, conflict_keys,
                 conflicting_dupes_count, idx>>

\* lines 25-26
DropDuplicates ==
  /\ pc = "dedup"
  /\ df_nodup' = drop_duplicates(df)
  /\ dropped_exact_dupes_count' = Len(df) - Len(drop_duplicates(df))
  /\ pc' = "group"
  /\ UNCHANGED <<args, ret, df, conflict_keys, conflicting_dupes_count, idx, clean_rows,
                 bad_rows, ingested_at>>

\* lines 28-31
GroupKeys ==
  /\ pc = "group"
  /\ conflict_keys' = ConflictKeys(df_nodup)
  /\ conflicting_dupes_count' = 0
  /\ idx' = 0
  /\ pc' = "loop"
  /\ UNCHANGED <<args, ret, df, df_nodup, dropped_exact_dupes_count, clean_rows, bad_rows,
                 ingested_at>>

\* lines 32-46: one iteration of the loop over df_nodup
ProcessRow ==
  /\ pc = "loop" /\ idx < Len(df_nodup)
  /\ LET row == df_nodup[idx + 1]
         canon == canonicalize_row(row)
         errs == RowErrs(row, canon, conflict_keys)
     IN  /\ conflicting_dupes_count' =
              IF RowKey(row) \in conflict_keys THEN conflicting_dupes_count + 1
              ELSE conflicting_dupes_count
         /\ bad_rows' = BadAfter(bad_rows, row, errs, Val(ingested_at))
         /\ clean_rows' = CleanAfter(clean_rows, canon, errs)
  /\ idx' = idx + 1
  /\ UNCHANGED <<pc, args, ret, df, df_nodup, dropped_exact_dupes_count, conflict_keys,
                 ingested_at>>

\* line 48
Return ==
  /\ pc = "loop" /\ idx = Len(df_nodup)
  /\ ret' = Some(<<clean_rows, bad_rows, dropped_exact_dupes_count, conflicting_dupes_count>>)
  /\ pc' = "done"
  /\ UNCHANGED <<args, batchVars>>

Next == Start \/ DropDuplicates \/ GroupKeys \/ ProcessRow \/ Return

Spec == Init /\ [][Next]_vars

-----------------------------------------------------------------------------
(* Claims about the batch *)

Count(seq, x) == Cardinality({j \in DOMAIN seq : seq[j] = x})
Copies(r) == Count(df, r)
\* the surviving row i shares its raw (order_id, item_sku) with another one
SharesKey(i) ==
  \E j \in DOMAIN df_nodup : j # i /\ RowKey(df_nodup[j]) = RowKey(df_nodup[i])
ValidatorReasons(row) == validate_row_canonical(canonicalize_row(row))
ReasonsOf(i) ==
  ValidatorReasons(df_nodup[i]) \o (IF SharesKey(i) THEN <<ConflictReason>> ELSE <<>>)
RejectedAs(i) ==
  <<df_nodup[i].order_id, df_nodup[i].item_sku, JoinReasons(ReasonsOf(i)),
    df_to_json_row(df_nodup[i]), Val(ingested_at)>>

(* C1: when process_dataframe returns, rows read = exact duplicates dropped
   + clean records + rejected rows, and rejected rows >= conflicting
   duplicates. *)
C1_CountersReconcile ==
  pc = "done" =>
    /\ Len(df) = dropped_exact_dupes_count + Len(clean_rows) + Len(bad_rows)
    /\ Len(bad_rows) >= conflicting_dupes_count
C1_Witness ==
  /\ pc = "done" /\ Len(df) = 4 /\ dropped_exact_dupes_count = 1
  /\ Len(clean_rows) = 1 /\ Len(bad_rows) = 2 /\ conflicting_dupes_count = 2

(* C2: every surviving row that shares its raw (order_id, item_sku) with
   another surviving row is rejected with the conflict reason after its
   validator reasons, none of them is clean, and the conflicting count is
   the number of such rows; two identical rows plus two rows of key (7, "A")
   with different prices give 1 exact duplicate and 2 conflicts. *)
C2_WholeGroupRejected ==
  pc = "done" =>
    /\ \A i \in DOMAIN df_nodup :
         SharesKey(i) => \E j \in DOMAIN bad_rows : bad_rows[j] = RejectedAs(i)
    /\ Len(clean_rows) + Cardinality({i \in DOMAIN df_nodup : SharesKey(i)}) <= Len(df_nodup)
    /\ conflicting_dupes_count = Cardinality({i \in DOMAIN df_nodup : SharesKey(i)})
    /\ (df = <<RowHash7, RowHash7, RowKey7, WithPrice12(RowKey7)>>
          => dropped_exact_dupes_count = 1 /\ conflicting_dupes_count = 2)

(* C3: two different surviving rows with the same raw key, the order_id or
   the item_sku of which is absent, both get the conflict reason and both
   count as conflicting duplicates. *)
Absent(v) == v = None \/ v = Some(<<>>)
AbsentKey(i) == Absent(df_nodup[i].order_id) \/ Absent(df_nodup[i].item_sku)
C3_AbsentKeysGroup ==
  pc = "done" =>
    /\ \A i \in DOMAIN df_nodup :
         AbsentKey(i) /\ SharesKey(i) =>
           \E j \in DOMAIN bad_rows :
             /\ bad_rows[j][1] = df_nodup[i].order_id
             /\ bad_rows[j][4] = df_to_json_row(df_nodup[i])
             /\ bad_rows[j][3] =
                  JoinReasons(Append(ValidatorReasons(df_nodup[i]), ConflictReason))
    /\ conflicting_dupes_count >=
         Cardinality({i \in DOMAIN df_nodup : AbsentKey(i) /\ SharesKey(i)})

(* C4: of the k copies of a raw row one is processed and k-1 are dropped
   and counted, and every processed row gives one entry, clean or rejected:
   a dropped copy gives none. *)
C4_OneOfThreeOutcomes ==
  /\ pc \in {"group", "loop", "done"} =>
       /\ \A r \in Range(df) : Count(df_nodup, r) = 1
       /\ Range(df_nodup) = Range(df)
       /\ dropped_exact_dupes_count = Len(df) - Cardinality(Range(df))
  /\ pc \in {"loop", "done"} =>
       /\ Len(clean_rows) + Len(bad_rows) = idx
       /\ \A j \in DOMAIN bad_rows :
            Count(bad_rows, bad_rows[j]) <=
              Cardinality({i \in DOMAIN df_nodup :
                             /\ df_to_json_row(df_nodup[i]) = bad_rows[j][4]
                             /\ RowKey(df_nodup[i]) = <<bad_rows[j][1], bad_rows[j][2]>>})
  /\ pc = "done" => idx = Len(df_nodup)
C4_Witness ==
  /\ pc = "done" /\ Copies(RowNoId) = 3 /\ Copies(RowHash7) = 1
  /\ dropped_exact_dupes_count = 2 /\ Len(clean_rows) = 1 /\ Len(bad_rows) = 1

(* C5: a surviving row is clean exactly when the validator has no reason
   for its canonical record and no other surviving row has its raw key;
   otherwise it is rejected as (raw order_id, raw item_sku, its reasons
   joined by "; ", the serialized raw row); no row is lost. *)
C5_CleanIffValidAndUnique ==
  pc = "done" =>
    /\ \A c \in Range(clean_rows) :
         Count(clean_rows, c) =
           Cardinality({i \in DOMAIN df_nodup :
                          canonicalize_row(df_nodup[i]) = c /\ ReasonsOf(i) = <<>>})
    /\ \A i \in DOMAIN df_nodup :
         IF ReasonsOf(i) = <<>>
           THEN \E j \in DOMAIN clean_rows : clean_rows[j] = canonicalize_row(df_nodup[i])
           ELSE Count(bad_rows, RejectedAs(i)) = 1
    /\ Len(clean_rows) + Len(bad_rows) = Len(df_nodup)

(* C12: when process_dataframe returns, no two records of the clean output
   have the same canonical (order_id, item_sku), also when the raw order_id
   texts differ only in non-digit characters ("7" and "#7"). *)
CanonKey(rec) == <<rec.order_id, rec.item_sku>>
C12_CleanKeysDistinct ==
  pc = "done" =>
    \A i, j \in DOMAIN clean_rows :
      CanonKey(clean_rows[i]) = CanonKey(clean_rows[j]) => i = j

(* C10: a non-null result of normalize_phone is digits with at most one "+",
   in first position: a text whose first kept character is "+" and that has
   at least 8 digits gives "+" and its digits; otherwise a known country
   gives calling code and the digits without leading zeros; otherwise the
   bare digits, or null when there is none. *)
PhoneShape(r) == \A i \in DOMAIN r : IsDigit(r[i]) \/ (i = 1 /\ r[i] = "+")
LeadingPlus(t) ==
  \E i \in DOMAIN t : t[i] = "+" /\ \A j \in 1..(i - 1) : ~IsDigit(t[j]) /\ t[j] # "+"
KnownCountry(c) == c # None /\ Upper(Val(c)) \in DOMAIN COUNTRY_CODE
C10_PhoneDigitsAndLeadingPlus ==
  pc = "done" /\ args.phone_raw # None /\ Val(args.phone_raw) # <<>> =>
    LET t == Val(args.phone_raw)
        d == KeepDigits(t)
    IN  /\ ret # None => PhoneShape(Val(ret))
        /\ IF LeadingPlus(t) /\ Len(d) >= 8 THEN ret = Some(<<"+">> \o d)
           ELSE IF KnownCountry(args.country) /\ d # <<>>
             THEN ret = Some(COUNTRY_CODE[Upper(Val(args.country))] \o StripLeadingZeros(d))
           ELSE ret = (IF d = <<>> THEN None ELSE Some(d))

=============================================================================
